---- MODULE Spec2Model ----
(***************************************************************************)
(* A model of the IPSAE library: the loaders of core/parser.py, the        *)
(* calculator of core/calculator.py and the result record of               *)
(* models/data_models.py.                                                  *)
(*                                                                         *)
(* Numbers.  PAE values and cutoffs are integers.  A distance is held in   *)
(* fixed point, in units of 1/DistScale: cdist's square root is the        *)
(* integer square root of the scaled squared distance.  Means and the      *)
(* scores derived from them are exact rationals [num, den] in lowest       *)
(* terms.  Python indices are kept 0-based in every value the program      *)
(* returns; sequences are read at index + 1.                               *)
(***************************************************************************)
EXTENDS Integers, Sequences, FiniteSets, TLC

VARIABLES structure_file, pae_file, calc, op, ret, calls, first_run, scanner

vars == <<structure_file, pae_file, calc, op, ret, calls, first_run, scanner>>

(***************************************************************************)
(* Bounds of the model.                                                    *)
(***************************************************************************)
\* most residues of a generated structure file
MaxRes == 3
\* fixed-point resolution of a distance: units per coordinate unit
DistScale == 1000

\* significand bits of the floating-point format of the rounded arithmetic
\* (binary64 has 53; the rounding rule is kept, the precision is lowered)
Precision == 5

(***************************************************************************)
(* Arithmetic.                                                             *)
(***************************************************************************)
Abs(n) == IF n < 0 THEN -n ELSE n

Min(a, b) == IF a <= b THEN a ELSE b

RECURSIVE GCD(_, _)
GCD(a, b) == IF b = 0 THEN a ELSE GCD(b, a % b)

RECURSIVE ISqrtIn(_, _, _)
ISqrtIn(n, lo, hi) ==
    IF lo >= hi THEN lo
    ELSE LET mid == (lo + hi + 1) \div 2
         IN  IF mid * mid <= n THEN ISqrtIn(n, mid, hi) ELSE ISqrtIn(n, lo, mid - 1)

\* floor of the square root of n >= 0
ISqrt(n) == ISqrtIn(n, 0, Min(n, 46340))

\* the rational n/d (d > 0) in lowest terms
Rat(n, d) ==
    LET g == GCD(Abs(n), d)
    IN  [num |-> n \div g, den |-> d \div g]

RatInt(n) == [num |-> n, den |-> 1]

RatSub(a, b) == Rat(a.num * b.den - b.num * a.den, a.den * b.den)

RatMul(a, b) == Rat(a.num * b.num, a.den * b.den)

\* a / k for an integer k > 0
RatDivInt(a, k) == Rat(a.num, a.den * k)

RatLeq(a, b) == a.num * b.den <= b.num * a.den

RECURSIVE SumSeq(_)
SumSeq(s) == IF s = <<>> THEN 0 ELSE Head(s) + SumSeq(Tail(s))

\* np.mean of a non-empty list of numbers
NpMean(values) == Rat(SumSeq(values), Len(values))

RECURSIVE Concat(_)
\* the concatenation of a sequence of sequences
Concat(ss) == IF ss = <<>> THEN <<>> ELSE Head(ss) \o Concat(Tail(ss))

\* the elements of a sequence
Range(s) == {s[k] : k \in DOMAIN s}

(***************************************************************************)
(* Floating point.  A float is the rational it denotes; every operation    *)
(* rounds its exact result to Precision significant bits, to nearest,      *)
(* ties to the even significand.  Exponent range is not modelled.          *)
(***************************************************************************)
RECURSIVE Pow2(_)
Pow2(k) == IF k = 0 THEN 1 ELSE 2 * Pow2(k - 1)

RatAdd(a, b) == Rat(a.num * b.den + b.num * a.den, a.den * b.den)

\* a / b for b > 0
RatDiv(a, b) == Rat(a.num * b.den, a.den * b.num)

RECURSIVE Normalise(_, _, _, _)
\* the powers of two <<up, down>> that bring n/d > 0 into
\* [2^(Precision-1), 2^Precision) as n * up / (d * down)
Normalise(n, d, up, down) ==
    IF n * up < Pow2(Precision - 1) * d * down THEN Normalise(n, d, 2 * up, down)
    ELSE IF n * up >= Pow2(Precision) * d * down THEN Normalise(n, d, up, 2 * down)
    ELSE <<up, down>>

\* the float nearest to the rational x
Fl(x) ==
    IF x.num = 0 THEN x
    ELSE LET a  == Abs(x.num)
             sc == Normalise(a, x.den, 1, 1)
             n  == a * sc[1]
             d  == x.den * sc[2]
             q  == n \div d
             r  == n % d
             m  == IF 2 * r > d \/ (2 * r = d /\ q % 2 = 1) THEN q + 1 ELSE q
         IN  Rat((IF x.num < 0 THEN -m ELSE m) * sc[2], sc[1])

RECURSIVE FloatSum(_, _)
\* np.add.reduce of a short list: the elements are added to acc in order
FloatSum(values, acc) ==
    IF values = <<>> THEN acc
    ELSE FloatSum(Tail(values), Fl(RatAdd(acc, RatInt(Head(values)))))

\* np.mean in floating point: the rounded sum divided by the count
NpMeanFloat(values) == Fl(RatDivInt(FloatSum(values, RatInt(0)), Len(values)))

\* IpsaeScoreFloat without the division by the cutoff
IpsaeScoreFloatUnscaled(avg_pae, pae_cutoff) == Fl(RatSub(RatInt(1), avg_pae))

\* 1.0 - (avg_pae / pae_cutoff) in floating point
IpsaeScoreFloat(avg_pae, pae_cutoff) ==
    Fl(RatSub(RatInt(1), Fl(RatDiv(avg_pae, RatInt(pae_cutoff)))))

(***************************************************************************)
(* Python values.                                                          *)
(***************************************************************************)
None == [isNone |-> TRUE]

IsNone(x) == x = None

NoException == "none"

\* an n x m array of element type dtype, rows as sequences
Array2(rows, dtype) ==
    [ndim |-> 2,
     shape |-> <<Len(rows), IF rows = <<>> THEN 0 ELSE Len(rows[1])>>,
     data |-> rows, dtype |-> dtype]

\* a 1-D array
Array1(flat, dtype) == [ndim |-> 1, shape |-> <<Len(flat)>>, data |-> flat, dtype |-> dtype]

\* ndarray.reshape(n, n) of a 1-D array of n * n elements: row-major
Reshape(arr, n) ==
    Array2([r \in 1..n |-> [c \in 1..n |-> arr.data[(r - 1) * n + c]]], arr.dtype)

(***************************************************************************)
(* Files.  A file name is the sequence of its dot-separated components    *)
(* (<<"fold", "json", "gz">> for fold.json.gz); a suffix is held without   *)
(* its leading dot.  A structure file holds models, each a sequence of     *)
(* chains [id, residues], each residue [num, name, ca] with ca the         *)
(* coordinates of its CA atoms.  A PAE file holds named arrays.            *)
(***************************************************************************)
\* Path.suffix: the last component of a name with a dot in it, else empty
Suffix(name) == IF Len(name) > 1 THEN name[Len(name)] ELSE ""

\* Path.stem: the name without its suffix
Stem(name) == IF Len(name) > 1 THEN SubSeq(name, 1, Len(name) - 1) ELSE name

\* str.lower on the suffixes the model uses
Lower(s) ==
    CASE s = "CIF" -> "cif"
      [] s = "PDB" -> "pdb"
      [] s = "JSON" -> "json"
      [] s = "NPZ" -> "npz"
      [] s = "GZ" -> "gz"
      [] OTHER -> s

Raise(exc) == [exc |-> exc]

Return(value) == [exc |-> NoException, value |-> value]

StructureData(chains, residues, coordinates) ==
    [chains |-> chains, residues |-> residues, coordinates |-> coordinates,
     pae_matrix |-> None]

\* the residue tuples one chain appends
ChainResidues(chain) ==
    [k \in DOMAIN chain.residues |->
        <<chain.id, chain.residues[k].num, chain.residues[k].name>>]

\* the CA coordinates one chain appends
ChainCoordinates(chain) ==
    Concat([k \in DOMAIN chain.residues |-> chain.residues[k].ca])

\* the loop nest shared by parse_cif and parse_pdb
ParseStructure(file) ==
    LET allchains == Concat(file.models)
    IN  StructureData(
            [k \in DOMAIN allchains |-> allchains[k].id],
            Concat([k \in DOMAIN allchains |-> ChainResidues(allchains[k])]),
            Concat([k \in DOMAIN allchains |-> ChainCoordinates(allchains[k])]))

ParseCif(file) == ParseStructure(file)

ParsePdb(file) == ParseStructure(file)

\* "Ensure the matrix is 2D": a 1-D array is reshaped to int(sqrt(len)) squared
Ensure2D(arr) ==
    IF arr.ndim = 1
    THEN LET n == ISqrt(Len(arr.data))
         IN  IF n * n = Len(arr.data) THEN Return(Reshape(arr, n))
             ELSE Raise("ValueError")
    ELSE Return(arr)

PossibleKeys == <<"pae_matrix", "predicted_aligned_error", "pae">>

RECURSIVE FirstKey(_, _)
\* the first of keys present in data, "" when none is
FirstKey(keys, data) ==
    IF keys = <<>> THEN ""
    ELSE IF Head(keys) \in DOMAIN data THEN Head(keys)
    ELSE FirstKey(Tail(keys), data)

ParseJson(file) ==
    LET key == FirstKey(PossibleKeys, file.data)
    IN  IF key = "" THEN Raise("ValueError") ELSE Ensure2D(file.data[key])

ParseNpz(file) ==
    IF "pae_matrix" \in DOMAIN file.data THEN Ensure2D(file.data["pae_matrix"])
    ELSE Raise("KeyError")

(***************************************************************************)
(* IPSAECalculator.                                                        *)
(***************************************************************************)
\* the structure half of load_data
LoadStructure(file) ==
    LET suffix == Lower(Suffix(file.name))
    IN  IF suffix = "cif" THEN Return(ParseCif(file))
        ELSE IF suffix = "pdb" THEN Return(ParsePdb(file))
        ELSE Raise("ValueError")

\* the suffix load_data dispatches the PAE file on
PaeSuffix(file) ==
    LET suffix == Lower(Suffix(file.name))
    IN  IF suffix = "gz"
        THEN LET stem == Stem(file.name) IN Lower(stem[Len(stem)])
        ELSE suffix

\* LoadPae reading a file of any other suffix as JSON
LoadPaeLenient(file) ==
    LET pae_suffix == PaeSuffix(file)
    IN  IF pae_suffix = "npz" THEN ParseNpz(file) ELSE ParseJson(file)

\* the PAE half of load_data
LoadPae(file) ==
    LET pae_suffix == PaeSuffix(file)
    IN  IF pae_suffix = "json" THEN ParseJson(file)
        ELSE IF pae_suffix = "npz" THEN ParseNpz(file)
        ELSE Raise("ValueError")

\* load_data: the calculator it leaves and the exception it raises
LoadData(c, sfile, pfile) ==
    LET s == LoadStructure(sfile)
    IN  IF s.exc # NoException THEN [calc |-> c, exc |-> s.exc]
        ELSE LET c1 == [c EXCEPT !.structure_data = s.value]
                 p  == LoadPae(pfile)
             IN  IF p.exc # NoException THEN [calc |-> c1, exc |-> p.exc]
                 ELSE [calc |-> [c1 EXCEPT !.pae_matrix = p.value,
                                           !.structure_data.pae_matrix = p.value],
                       exc |-> NoException]

\* the fields __init__ sets before it loads
NewCalculator(pae_cutoff, distance_cutoff) ==
    [pae_cutoff |-> pae_cutoff, distance_cutoff |-> distance_cutoff,
     structure_data |-> None, pae_matrix |-> None]

\* the chain labels of the model, in Python's string order
ChainAlphabet == <<"A", "B", "C">>

\* the distinct labels in the order of their first occurrence, unsorted
FirstOccurrences(labels) ==
    LET firsts == SelectSeq([k \in DOMAIN labels |-> k],
                            LAMBDA k : \A m \in 1..(k - 1) : labels[m] # labels[k])
    IN  [x \in DOMAIN firsts |-> labels[firsts[x]]]

\* sorted(set(labels))
SortedSet(labels) == SelectSeq(ChainAlphabet, LAMBDA c : c \in Range(labels))

\* Euclidean taken in the x-y plane alone
EuclideanPlanar(p, q) ==
    ISqrt(((p[1] - q[1]) * (p[1] - q[1]) + (p[2] - q[2]) * (p[2] - q[2]))
          * DistScale * DistScale)

\* one entry of cdist: the Euclidean distance of two points, in 1/DistScale
Euclidean(p, q) ==
    ISqrt(((p[1] - q[1]) * (p[1] - q[1]) + (p[2] - q[2]) * (p[2] - q[2])
           + (p[3] - q[3]) * (p[3] - q[3])) * DistScale * DistScale)

\* cdist(coordinates, coordinates), which refuses an array that is not 2-D
Cdist(coordinates) ==
    IF coordinates = <<>> THEN Raise("ValueError")
    ELSE Return([i \in DOMAIN coordinates |->
                    [j \in DOMAIN coordinates |-> Euclidean(coordinates[i], coordinates[j])]])

\* Qualifies keeping the pairs at or beyond the distance cutoff
QualifiesBeyond(c, pae, dist) ==
    pae <= c.pae_cutoff /\ dist >= c.distance_cutoff * DistScale

\* Qualifies with the PAE cutoff taken exclusively
QualifiesExclusive(c, pae, dist) ==
    pae < c.pae_cutoff /\ dist <= c.distance_cutoff * DistScale

\* Qualifies with the PAE comparison turned around
QualifiesInverted(c, pae, dist) ==
    pae >= c.pae_cutoff /\ dist <= c.distance_cutoff * DistScale

\* the cutoff test of an index pair
Qualifies(c, pae, dist) == pae <= c.pae_cutoff /\ dist <= c.distance_cutoff * DistScale

\* whether pae_matrix[i, j] and distances[i, j] can both be read
InBounds(c, distances, i, j) ==
    /\ i < c.pae_matrix.shape[1] /\ j < c.pae_matrix.shape[2]
    /\ i < Len(distances) /\ j < Len(distances)

NoInteractions == [valid_interactions |-> <<>>, pae_values |-> <<>>, dist_values |-> <<>>]

RECURSIVE ScanPairsEitherDirection(_, _, _, _)
\* ScanPairs taking the smaller of pae_matrix[i, j] and pae_matrix[j, i]
ScanPairsEitherDirection(c, distances, pairs, acc) ==
    IF pairs = <<>> THEN Return(acc)
    ELSE LET i == Head(pairs)[1]
             j == Head(pairs)[2]
         IN  IF ~(InBounds(c, distances, i, j) /\ InBounds(c, distances, j, i))
             THEN Raise("IndexError")
             ELSE LET pae  == Min(c.pae_matrix.data[i + 1][j + 1],
                                  c.pae_matrix.data[j + 1][i + 1])
                      dist == distances[i + 1][j + 1]
                  IN  ScanPairsEitherDirection(c, distances, Tail(pairs),
                          IF Qualifies(c, pae, dist)
                          THEN [valid_interactions |-> Append(acc.valid_interactions, <<i, j>>),
                                pae_values |-> Append(acc.pae_values, pae),
                                dist_values |-> Append(acc.dist_values, dist)]
                          ELSE acc)

RECURSIVE ScanPairs(_, _, _, _)
\* the inner loops: every index pair of pairs is read, in order, and kept when it
\* qualifies; a read out of range raises
ScanPairs(c, distances, pairs, acc) ==
    IF pairs = <<>> THEN Return(acc)
    ELSE LET i == Head(pairs)[1]
             j == Head(pairs)[2]
         IN  IF ~InBounds(c, distances, i, j) THEN Raise("IndexError")
             ELSE LET pae  == c.pae_matrix.data[i + 1][j + 1]
                      dist == distances[i + 1][j + 1]
                  IN  ScanPairs(c, distances, Tail(pairs),
                          IF Qualifies(c, pae, dist)
                          THEN [valid_interactions |-> Append(acc.valid_interactions, <<i, j>>),
                                pae_values |-> Append(acc.pae_values, pae),
                                dist_values |-> Append(acc.dist_values, dist)]
                          ELSE acc)

\* [k for k, (c, _, _) in enumerate(residues) if c == chain]
ChainIndices(residues, chain) ==
    LET all == [k \in DOMAIN residues |-> k - 1]
    IN  SelectSeq(all, LAMBDA k : residues[k + 1][1] = chain)

\* CrossPairs keeping only the pairs whose first index is the smaller
CrossPairsAscending(idx1s, idx2s) ==
    SelectSeq(Concat([a \in DOMAIN idx1s |-> [b \in DOMAIN idx2s |-> <<idx1s[a], idx2s[b]>>]]),
              LAMBDA p : p[1] < p[2])

\* the index pairs (idx1, idx2) in the order the two inner loops visit them
CrossPairs(idx1s, idx2s) ==
    Concat([a \in DOMAIN idx1s |-> [b \in DOMAIN idx2s |-> <<idx1s[a], idx2s[b]>>]])

\* the chain pairs (chain1, chain2) in the order the two outer loops visit them
ChainPairs(chains) ==
    Concat([i \in DOMAIN chains |->
        [j \in 1..(Len(chains) - i) |-> <<chains[i], chains[i + j]>>]])

\* the value of 1 / (1 + exp(-x)), left uninterpreted
Sigmoid(x) == [sigmoid_at |-> x]

IpsaeScore(avg_pae, pae_cutoff) == RatSub(RatInt(1), RatDivInt(avg_pae, pae_cutoff))

PdockqScore(avg_pae) == Sigmoid(RatMul(Rat(1, 2), RatSub(avg_pae, RatInt(20))))

\* LisScore over the length of the first chain alone
LisScoreOverFirst(found, n1, n2) == Rat(Len(found.valid_interactions), n1)

\* LisScore over the sum of the chain lengths
LisScoreOverSum(found, n1, n2) == Rat(Len(found.valid_interactions), n1 + n2)

LisScore(found, n1, n2) == Rat(Len(found.valid_interactions), n1 * n2)

\* ChainChainScore with the means taken over every cross pair of the two chains
ChainChainScoreOverCross(c, chain1, chain2, found, n1, n2) ==
    LET avg_pae == Rat(SumSeq(found.pae_values), n1 * n2)
    IN  [chain1 |-> chain1, chain2 |-> chain2,
         ipsae_score |-> IpsaeScore(avg_pae, c.pae_cutoff),
         pdockq_score |-> PdockqScore(avg_pae),
         lis_score |-> LisScore(found, n1, n2),
         avg_pae |-> avg_pae,
         avg_distance |-> Rat(SumSeq(found.dist_values), n1 * n2),
         num_interactions |-> Len(found.valid_interactions),
         valid_interactions |-> found.valid_interactions,
         pae_values |-> found.pae_values,
         distances |-> found.dist_values]

ChainChainScore(c, chain1, chain2, found, n1, n2) ==
    LET avg_pae == NpMean(found.pae_values)
    IN  [chain1 |-> chain1, chain2 |-> chain2,
         ipsae_score |-> IpsaeScore(avg_pae, c.pae_cutoff),
         pdockq_score |-> PdockqScore(avg_pae),
         lis_score |-> LisScore(found, n1, n2),
         avg_pae |-> avg_pae,
         avg_distance |-> NpMean(found.dist_values),
         num_interactions |-> Len(found.valid_interactions),
         valid_interactions |-> found.valid_interactions,
         pae_values |-> found.pae_values,
         distances |-> found.dist_values]

RECURSIVE ChainPairLoopStopping(_, _, _, _)
\* ChainPairLoop leaving the loops at the first pair without a contact
ChainPairLoopStopping(c, distances, pairs, scores) ==
    IF pairs = <<>> THEN Return(scores)
    ELSE LET chain1 == Head(pairs)[1]
             chain2 == Head(pairs)[2]
             idx1s  == ChainIndices(c.structure_data.residues, chain1)
             idx2s  == ChainIndices(c.structure_data.residues, chain2)
             found  == ScanPairs(c, distances, CrossPairs(idx1s, idx2s), NoInteractions)
         IN  IF found.exc # NoException THEN found
             ELSE IF found.value.valid_interactions = <<>> THEN Return(scores)
             ELSE ChainPairLoopStopping(c, distances, Tail(pairs),
                     Append(scores, ChainChainScore(c, chain1, chain2, found.value,
                                                    Len(idx1s), Len(idx2s))))

RECURSIVE ChainPairLoop(_, _, _, _)
\* the two outer loops of calculate_chain_chain_scores
ChainPairLoop(c, distances, pairs, scores) ==
    IF pairs = <<>> THEN Return(scores)
    ELSE LET chain1 == Head(pairs)[1]
             chain2 == Head(pairs)[2]
             idx1s  == ChainIndices(c.structure_data.residues, chain1)
             idx2s  == ChainIndices(c.structure_data.residues, chain2)
             found  == ScanPairs(c, distances, CrossPairs(idx1s, idx2s), NoInteractions)
         IN  IF found.exc # NoException THEN found
             ELSE ChainPairLoop(c, distances, Tail(pairs),
                     IF found.value.valid_interactions # <<>>
                     THEN Append(scores, ChainChainScore(c, chain1, chain2, found.value,
                                                         Len(idx1s), Len(idx2s)))
                     ELSE scores)

\* calculate_chain_chain_scores: the list it returns or the exception it raises
CalculateChainChainScores(c) ==
    LET chains == SortedSet(c.structure_data.chains)
        d      == Cdist(c.structure_data.coordinates)
    IN  IF d.exc # NoException THEN d
        ELSE ChainPairLoop(c, d.value, ChainPairs(chains), <<>>)

ResidueScore(c, residue, found) ==
    LET avg_pae == NpMean(found.pae_values)
    IN  [chain |-> residue[1], residue_number |-> residue[2], residue_name |-> residue[3],
         ipsae_score |-> IpsaeScore(avg_pae, c.pae_cutoff),
         avg_pae |-> avg_pae,
         avg_distance |-> NpMean(found.dist_values),
         num_interactions |-> Len(found.valid_interactions),
         valid_interactions |-> found.valid_interactions,
         pae_values |-> found.pae_values,
         distances |-> found.dist_values]

\* PartnerPairs over the residues after i alone
PartnerPairsAbove(i, n) ==
    SelectSeq([j \in 1..n |-> <<i, j - 1>>], LAMBDA p : p[2] > i)

\* PartnerPairs without the test that skips j = i
PartnerPairsWithSelf(i, n) == [j \in 1..n |-> <<i, j - 1>>]

\* the pairs (i, j), j in range(n), j != i, in the order the inner loop visits them
PartnerPairs(i, n) ==
    SelectSeq([j \in 1..n |-> <<i, j - 1>>], LAMBDA p : p[2] # i)

RECURSIVE ResidueLoop(_, _, _, _)
\* the outer loop of calculate_residue_scores, from residue index i on
ResidueLoop(c, distances, i, scores) ==
    IF i >= Len(c.structure_data.residues) THEN Return(scores)
    ELSE LET found == ScanPairs(c, distances,
                          PartnerPairs(i, Len(c.structure_data.coordinates)), NoInteractions)
         IN  IF found.exc # NoException THEN found
             ELSE ResidueLoop(c, distances, i + 1,
                     IF found.value.valid_interactions # <<>>
                     THEN Append(scores,
                              ResidueScore(c, c.structure_data.residues[i + 1], found.value))
                     ELSE scores)

\* calculate_residue_scores: the list it returns or the exception it raises
CalculateResidueScores(c) ==
    LET d == Cdist(c.structure_data.coordinates)
    IN  IF d.exc # NoException THEN d
        ELSE ResidueLoop(c, d.value, 0, <<>>)

IPSAEResults(chain_chain_scores, residue_scores, structure_data) ==
    [chain_chain_scores |-> chain_chain_scores, residue_scores |-> residue_scores,
     structure_data |-> structure_data]

\* Calculate scoring the data already loaded, without loading again
CalculateWithoutLoad(c, sfile, pfile) ==
    LET cc == CalculateChainChainScores(c)
    IN  IF cc.exc # NoException
        THEN [calc |-> c, exc |-> cc.exc, calls |-> <<"calculate_chain_chain_scores">>]
        ELSE LET rs == CalculateResidueScores(c)
                 both == <<"calculate_chain_chain_scores", "calculate_residue_scores">>
             IN  IF rs.exc # NoException THEN [calc |-> c, exc |-> rs.exc, calls |-> both]
                 ELSE [calc |-> c, exc |-> NoException, calls |-> both,
                       value |-> IPSAEResults(cc.value, rs.value, c.structure_data)]

\* Calculate scoring the residues on the dataset held before the load
CalculateStaleResidues(c, sfile, pfile) ==
    LET l == LoadData(c, sfile, pfile)
    IN  IF l.exc # NoException
        THEN [calc |-> l.calc, exc |-> l.exc, calls |-> <<"load_data">>]
        ELSE LET cc == CalculateChainChainScores(l.calc)
                 two == <<"load_data", "calculate_chain_chain_scores">>
             IN  IF cc.exc # NoException
                 THEN [calc |-> l.calc, exc |-> cc.exc, calls |-> two]
                 ELSE LET rs == CalculateResidueScores(c)
                          three == Append(two, "calculate_residue_scores")
                      IN  IF rs.exc # NoException
                          THEN [calc |-> l.calc, exc |-> rs.exc, calls |-> three]
                          ELSE [calc |-> l.calc, exc |-> NoException, calls |-> three,
                                value |-> IPSAEResults(cc.value, rs.value,
                                                       l.calc.structure_data)]

\* calculate: the calculator it leaves, the methods it entered, and the results
\* it returns or the exception it raises
Calculate(c, sfile, pfile) ==
    LET l == LoadData(c, sfile, pfile)
    IN  IF l.exc # NoException
        THEN [calc |-> l.calc, exc |-> l.exc, calls |-> <<"load_data">>]
        ELSE LET cc == CalculateChainChainScores(l.calc)
                 two == <<"load_data", "calculate_chain_chain_scores">>
             IN  IF cc.exc # NoException
                 THEN [calc |-> l.calc, exc |-> cc.exc, calls |-> two]
                 ELSE LET rs == CalculateResidueScores(l.calc)
                          three == Append(two, "calculate_residue_scores")
                      IN  IF rs.exc # NoException
                          THEN [calc |-> l.calc, exc |-> rs.exc, calls |-> three]
                          ELSE [calc |-> l.calc, exc |-> NoException, calls |-> three,
                                value |-> IPSAEResults(cc.value, rs.value,
                                                       l.calc.structure_data)]

(***************************************************************************)
(* IPSAEResults.save.                                                      *)
(***************************************************************************)
\* the element type of the scalars read out of the PAE matrix
PaeScalarType(results) ==
    IF IsNone(results.structure_data.pae_matrix) THEN "none"
    ELSE results.structure_data.pae_matrix.dtype

\* convert_numpy of an ndarray or None: tolist()
ToList(arr) == IF IsNone(arr) THEN None ELSE arr.data

\* whether json.dump meets a value it cannot encode: convert_numpy leaves the
\* elements of a list as they are, and an int64 scalar is no Python int
HasUnencodable(results) ==
    /\ PaeScalarType(results) = "int64"
    /\ \/ \E k \in DOMAIN results.chain_chain_scores :
              results.chain_chain_scores[k].pae_values # <<>>
       \/ \E k \in DOMAIN results.residue_scores :
              results.residue_scores[k].pae_values # <<>>

\* the mapping save builds
InterchangeForm(results) ==
    [chain_chain_scores |-> results.chain_chain_scores,
     residue_scores |-> results.residue_scores,
     structure_data |->
        [chains |-> results.structure_data.chains,
         residues |-> results.structure_data.residues,
         coordinates |-> results.structure_data.coordinates,
         pae_matrix |-> ToList(results.structure_data.pae_matrix)]]

\* save: the mapping written, or the exception json.dump raises
Save(results) ==
    IF HasUnencodable(results) THEN Raise("TypeError")
    ELSE Return(InterchangeForm(results))

\* a score entry with its PAE mean and its ipsae_score as floating point
\* computes them; the other fields are left as they are
FloatEntry(c, score) ==
    [score EXCEPT !.avg_pae = NpMeanFloat(score.pae_values),
                  !.ipsae_score = IpsaeScoreFloat(NpMeanFloat(score.pae_values),
                                                  c.pae_cutoff)]

\* a score list in floating point
FloatScores(c, r) ==
    IF r.exc # NoException THEN r
    ELSE Return([k \in DOMAIN r.value |-> FloatEntry(c, r.value[k])])

(***************************************************************************)
(* Inputs.                                                                 *)
(***************************************************************************)
\* the two values a generated off-diagonal PAE entry takes
PaeEntry(high) == IF high THEN 30 ELSE 10

PaeCutoffs == {10, 30}

DistanceCutoffs == {4, 8}

\* where a generated residue's CA atom may lie
Points == {<<0, 0, 0>>, <<0, 0, 8>>}

\* the generated CA positions of n residues; the first lies at the origin, which
\* loses no distance matrix
Placements(n) == {xyz \in [1..n -> Points] : xyz[1] = <<0, 0, 0>>}

Residue(num, ca) == [num |-> num, name |-> "ALA", ca |-> ca]

Chain(id, residues) == [id |-> id, residues |-> residues]

StructureFile(name, models) == [name |-> name, models |-> models]

PaeFile(name, data) == [name |-> name, data |-> data]

\* the label sequences of n residues: a chain's residues are contiguous, and
\* the labels used are the first ones of the alphabet
Layouts(n) ==
    {l \in [1..n -> Range(ChainAlphabet)] :
        /\ \A i, j, k \in 1..n : (i < j /\ j < k /\ l[i] = l[k]) => l[j] = l[i]
        /\ \E m \in 1..Len(ChainAlphabet) :
              Range(l) = {ChainAlphabet[x] : x \in 1..m}}

\* the chains of a one-model file with the given labels and CA lists
ChainsOf(layout, cas) ==
    LET starts == SelectSeq([k \in DOMAIN layout |-> k],
                            LAMBDA k : k = 1 \/ layout[k] # layout[k - 1])
        last(s) == IF s = Len(starts) THEN Len(layout) ELSE starts[s + 1] - 1
    IN  [s \in DOMAIN starts |->
            Chain(layout[starts[s]],
                  [r \in 1..(last(s) - starts[s] + 1) |->
                      Residue(r, cas[starts[s] + r - 1])])]

\* the off-diagonal positions of an n x n matrix
OffDiagonal(n) == {p \in (1..n) \X (1..n) : p[1] # p[2]}

\* the n x n matrix that holds the high value on high, 0 on the diagonal and the
\* low value elsewhere
PaeRows(n, high) ==
    [i \in 1..n |-> [j \in 1..n |-> IF i = j THEN 0 ELSE PaeEntry(<<i, j>> \in high)]]

\* the generated matrices: uniformly low, or high at one residue pair, in one
\* direction or in both
HighSets(n) ==
    {{}} \cup {{p} : p \in OffDiagonal(n)} \cup {{p, <<p[2], p[1]>>} : p \in OffDiagonal(n)}

\* the structure of testable property 6 of the design: chain A at z = 0,
\* chain B at z = 5
ExampleStructure ==
    StructureFile(<<"example", "pdb">>,
        << <<Chain("A", <<Residue(1, << <<0, 0, 0>> >>), Residue(2, << <<1, 0, 0>> >>),
                          Residue(3, << <<2, 0, 0>> >>)>>),
             Chain("B", <<Residue(1, << <<0, 0, 5>> >>), Residue(2, << <<1, 0, 5>> >>)>>)>> >>)

ExamplePae ==
    PaeFile(<<"example", "json">>, [pae_matrix |-> Array2(PaeRows(5, {}), "float64")])

\* a generated one-model structure file: every residue has its CA atom
GeneratedStructure(layout, xyz) ==
    StructureFile(<<"fold", "pdb">>,
        << ChainsOf(layout, [k \in DOMAIN layout |-> <<xyz[k]>>]) >>)

\* a generated PAE file: an n x n matrix of reals under the first accepted key
GeneratedPae(n, high) ==
    PaeFile(<<"fold", "json">>, [pae_matrix |-> Array2(PaeRows(n, high), "float64")])

\* two chains of one residue each
StructureAB ==
    StructureFile(<<"fold", "pdb">>,
        << <<Chain("A", <<Residue(1, << <<0, 0, 0>> >>)>>),
             Chain("B", <<Residue(1, << <<0, 0, 8>> >>)>>)>> >>)

\* one chain of two residues
StructureAA ==
    StructureFile(<<"fold", "pdb">>,
        << <<Chain("A", <<Residue(1, << <<0, 0, 0>> >>), Residue(2, << <<0, 0, 8>> >>)>>)>> >>)

\* the second residue of chain A has no CA atom
StructureNoCA ==
    StructureFile(<<"fold", "CIF">>,
        << <<Chain("A", <<Residue(1, << <<0, 0, 0>> >>), Residue(2, <<>>)>>),
             Chain("B", <<Residue(1, << <<0, 0, 8>> >>)>>)>> >>)

\* two models of one chain each
StructureTwoModels ==
    StructureFile(<<"fold", "cif">>,
        << <<Chain("A", <<Residue(1, << <<0, 0, 0>> >>)>>)>>,
           <<Chain("A", <<Residue(1, << <<0, 0, 8>> >>)>>)>> >>)

\* a file of a type the loader does not know
StructureTxt == StructureFile(<<"fold", "txt">>, << >>)

\* the structure files of the life-cycle specification
StructureMenu ==
    {StructureAB, StructureAA, StructureNoCA, StructureTwoModels, StructureTxt}

PaeJson2 ==
    PaeFile(<<"fold", "json">>, [pae_matrix |-> Array2(PaeRows(2, {}), "float64")])

\* two accepted keys, holding integer matrices of different sizes
PaeJsonKeys3 ==
    PaeFile(<<"fold", "json">>,
        [predicted_aligned_error |-> Array2(PaeRows(3, {<<1, 3>>}), "int64"),
         pae |-> Array2(PaeRows(2, {}), "int64")])

\* a flat list of four values in a gzipped JSON file
PaeJsonGzFlat ==
    PaeFile(<<"fold", "json", "gz">>, [pae |-> Array1(<<0, 30, 10, 0>>, "float64")])

PaeJson1 ==
    PaeFile(<<"fold", "json">>, [pae_matrix |-> Array2(PaeRows(1, {}), "float64")])

\* no accepted key
PaeJsonNoKey == PaeFile(<<"fold", "json">>, [plddt |-> Array1(<<90, 80>>, "float64")])

PaeNpz2 ==
    PaeFile(<<"fold", "npz">>, [pae_matrix |-> Array2(PaeRows(2, {<<2, 1>>}), "float64")])

\* an NPZ file whose matrix is under a key only the JSON loader accepts
PaeNpzAltKey == PaeFile(<<"fold", "npz">>, [pae |-> Array2(PaeRows(2, {}), "float64")])

PaeTxt == PaeFile(<<"fold", "txt">>, [pae_matrix |-> Array2(PaeRows(2, {}), "float64")])

\* the PAE files of the life-cycle specification
PaeMenu ==
    {PaeJson2, PaeJsonKeys3, PaeJsonGzFlat, PaeJson1, PaeJsonNoKey, PaeNpz2, PaeNpzAltKey,
     PaeTxt}

\* the cutoff pairs of the life-cycle specification
LifeCutoffs == {<<30, 8>>, <<10, 4>>}

\* the files and cutoffs of the repeated-run specification
RepeatStructureMenu == {StructureAB, StructureNoCA, StructureTxt}

RepeatPaeMenu == {PaeJson2, PaeJsonKeys3, PaeJsonNoKey}

RepeatCutoffs == {<<30, 8>>}

(***************************************************************************)
(* The state machine.  structure_file and pae_file are the two files on    *)
(* disk; calc is the calculator (None when its construction raised); op    *)
(* and ret are the last call and what it returned or raised; calls lists   *)
(* the methods of the calculator that call entered, in order; first_run    *)
(* records the first calculate() call of the behaviour; scanner is the      *)
(* FileScanner of src/scanner.py (None where none is constructed).         *)
(***************************************************************************)
\* what a calculate() run depends on
RunInput == <<structure_file, pae_file, calc.pae_cutoff, calc.distance_cutoff>>

\* IPSAECalculator(pae_file, structure_file, pae_cutoff, distance_cutoff)
Construct(sfile, pfile, pae_cutoff, distance_cutoff) ==
    LET l == LoadData(NewCalculator(pae_cutoff, distance_cutoff), sfile, pfile)
    IN  /\ structure_file = sfile
        /\ pae_file = pfile
        /\ op = "__init__"
        /\ calls = <<"load_data">>
        /\ first_run = None
        /\ scanner = None
        /\ IF l.exc = NoException
           THEN calc = l.calc /\ ret = Return(None)
           ELSE calc = None /\ ret = Raise(l.exc)

Init ==
    \E sfile \in StructureMenu, pfile \in PaeMenu, cutoffs \in LifeCutoffs :
        Construct(sfile, pfile, cutoffs[1], cutoffs[2])

InitScore ==
    \E pae_cutoff \in PaeCutoffs, distance_cutoff \in DistanceCutoffs :
        \/ Construct(ExampleStructure, ExamplePae, pae_cutoff, distance_cutoff)
        \/ \E n \in 1..MaxRes :
              \E layout \in Layouts(n), xyz \in Placements(n), high \in HighSets(n) :
                  Construct(GeneratedStructure(layout, xyz), GeneratedPae(n, high),
                            pae_cutoff, distance_cutoff)

InitRepeat ==
    \E sfile \in RepeatStructureMenu, pfile \in RepeatPaeMenu, cutoffs \in RepeatCutoffs :
        Construct(sfile, pfile, cutoffs[1], cutoffs[2])

DoLoadData ==
    /\ ~IsNone(calc)
    /\ LET l == LoadData(calc, structure_file, pae_file)
       IN  /\ calc' = l.calc
           /\ ret' = IF l.exc = NoException THEN Return(None) ELSE Raise(l.exc)
    /\ op' = "load_data"
    /\ calls' = <<"load_data">>
    /\ UNCHANGED <<structure_file, pae_file>>

\* DoCalculateChainChainScores storing the sorted labels back into the dataset
DoCalculateChainChainScoresSorting ==
    /\ ~IsNone(calc)
    /\ ret' = CalculateChainChainScores(calc)
    /\ calc' = [calc EXCEPT !.structure_data.chains = SortedSet(@)]
    /\ op' = "calculate_chain_chain_scores"
    /\ calls' = <<"calculate_chain_chain_scores">>
    /\ UNCHANGED <<structure_file, pae_file>>

DoCalculateChainChainScores ==
    /\ ~IsNone(calc)
    /\ ret' = CalculateChainChainScores(calc)
    /\ op' = "calculate_chain_chain_scores"
    /\ calls' = <<"calculate_chain_chain_scores">>
    /\ UNCHANGED <<structure_file, pae_file, calc>>

DoCalculateResidueScores ==
    /\ ~IsNone(calc)
    /\ ret' = CalculateResidueScores(calc)
    /\ op' = "calculate_residue_scores"
    /\ calls' = <<"calculate_residue_scores">>
    /\ UNCHANGED <<structure_file, pae_file, calc>>

DoCalculate ==
    /\ ~IsNone(calc)
    /\ LET r == Calculate(calc, structure_file, pae_file)
           out == IF r.exc = NoException THEN Return(r.value) ELSE Raise(r.exc)
       IN  /\ calc' = r.calc
           /\ ret' = out
           /\ calls' = r.calls
    /\ op' = "calculate"
    /\ UNCHANGED <<structure_file, pae_file>>

\* results.save(path) on the results calculate() has just returned
DoSave ==
    /\ op = "calculate"
    /\ ret.exc = NoException
    /\ ret' = Save(ret.value)
    /\ op' = "save"
    /\ calls' = <<>>
    /\ UNCHANGED <<structure_file, pae_file, calc>>

\* the environment replaces the structure file
WriteStructureFile(menu) ==
    /\ \E f \in menu : f # structure_file /\ structure_file' = f
    /\ op' = "write_structure_file"
    /\ calls' = <<>>
    /\ ret' = Return(None)
    /\ UNCHANGED <<pae_file, calc>>

\* the environment replaces the PAE file
WritePaeFile(menu) ==
    /\ \E f \in menu : f # pae_file /\ pae_file' = f
    /\ op' = "write_pae_file"
    /\ calls' = <<>>
    /\ ret' = Return(None)
    /\ UNCHANGED <<structure_file, calc>>

\* history: the first calculate() call of the behaviour is remembered, and
\* whether the calculator's data has changed since
RecordFirstRun ==
    first_run' =
        IF IsNone(first_run)
        THEN IF op' = "calculate"
             THEN [input |-> RunInput, ret |-> ret', disturbed |-> FALSE]
             ELSE None
        ELSE [first_run EXCEPT !.disturbed = @ \/ calc' # calc]

Next ==
    \/ DoLoadData /\ UNCHANGED <<first_run, scanner>>
    \/ DoCalculateChainChainScores /\ UNCHANGED <<first_run, scanner>>
    \/ DoCalculateResidueScores /\ UNCHANGED <<first_run, scanner>>
    \/ DoCalculate /\ UNCHANGED <<first_run, scanner>>
    \/ DoSave /\ UNCHANGED <<first_run, scanner>>
    \/ WriteStructureFile(StructureMenu) /\ UNCHANGED <<first_run, scanner>>
    \/ WritePaeFile(PaeMenu) /\ UNCHANGED <<first_run, scanner>>

Spec == Init /\ [][Next]_vars

NextScore ==
    \/ DoCalculateChainChainScores /\ UNCHANGED <<first_run, scanner>>
    \/ DoCalculateResidueScores /\ UNCHANGED <<first_run, scanner>>

SpecScore == InitScore /\ [][NextScore]_vars

NextRepeat ==
    \/ DoLoadData /\ RecordFirstRun /\ UNCHANGED scanner
    \/ DoCalculateChainChainScores /\ RecordFirstRun /\ UNCHANGED scanner
    \/ DoCalculateResidueScores /\ RecordFirstRun /\ UNCHANGED scanner
    \/ DoCalculate /\ RecordFirstRun /\ UNCHANGED scanner
    \/ DoSave /\ RecordFirstRun /\ UNCHANGED scanner
    \/ WriteStructureFile(RepeatStructureMenu) /\ RecordFirstRun /\ UNCHANGED scanner
    \/ WritePaeFile(RepeatPaeMenu) /\ RecordFirstRun /\ UNCHANGED scanner

SpecRepeat == InitRepeat /\ [][NextRepeat]_vars

\* the PAE cutoffs of the floating-point specification: every float of one binade
FloatCutoffs == Pow2(Precision - 1)..(Pow2(Precision) - 1)

\* the PAE values generated under a cutoff: the cutoff itself, the float next
\* below it, and the lowest cutoff
FloatValues(pae_cutoff) == {pae_cutoff, pae_cutoff - 1, Pow2(Precision - 1)}

\* chain A of one residue and chain B of three, all at one point
FloatStructure ==
    GeneratedStructure(<<"A", "B", "B", "B">>, [k \in 1..4 |-> <<0, 0, 0>>])

\* the PAE file whose column j holds values[j] off the diagonal
FloatPae(values) ==
    PaeFile(<<"fold", "json">>,
        [pae_matrix |->
            Array2([i \in DOMAIN values |-> [j \in DOMAIN values |->
                        IF i = j THEN 0 ELSE values[j]]], "float64")])

InitFloat ==
    \E pae_cutoff \in FloatCutoffs :
        \E values \in [1..4 -> FloatValues(pae_cutoff)] :
            Construct(FloatStructure, FloatPae(values), pae_cutoff, 8)

\* calculate_chain_chain_scores with lines 100 and 104 in floating point
DoCalculateChainChainScoresFloat ==
    /\ ~IsNone(calc)
    /\ ret' = FloatScores(calc, CalculateChainChainScores(calc))
    /\ op' = "calculate_chain_chain_scores"
    /\ calls' = <<"calculate_chain_chain_scores">>
    /\ UNCHANGED <<structure_file, pae_file, calc>>

\* calculate_residue_scores with lines 154 and 158 in floating point
DoCalculateResidueScoresFloat ==
    /\ ~IsNone(calc)
    /\ ret' = FloatScores(calc, CalculateResidueScores(calc))
    /\ op' = "calculate_residue_scores"
    /\ calls' = <<"calculate_residue_scores">>
    /\ UNCHANGED <<structure_file, pae_file, calc>>

NextFloat ==
    \/ DoCalculateChainChainScoresFloat /\ UNCHANGED <<first_run, scanner>>
    \/ DoCalculateResidueScoresFloat /\ UNCHANGED <<first_run, scanner>>

SpecFloat == InitFloat /\ [][NextFloat]_vars

(***************************************************************************)
(* FileScanner (src/scanner.py).  A file name is the sequence of its       *)
(* atoms: the runs of characters between the separators "_" and ".", and   *)
(* the separators themselves, so that                                      *)
(*   "KSR1_model_3.pdb" is <<"KSR1", "_", "model", "_", "3", ".", "pdb">>. *)
(* A pattern is a name in which the atom "*" stands for any run of atoms;  *)
(* every literal stretch of the patterns of the class starts and ends at a *)
(* separator or at the end of the name, so matching atoms is matching      *)
(* characters.  A path is its parent directory and its name.               *)
(***************************************************************************)

\* the number of files below the scanned directory
MaxFiles == 3

Us == "_"

Dot == "."

Star == "*"

\* fnmatch of a pattern against a name, as Path.rglob applies it
RECURSIVE Glob(_, _)
Glob(pattern, name) ==
    IF pattern = <<>> THEN name = <<>>
    ELSE IF Head(pattern) = Star
         THEN \/ Glob(Tail(pattern), name)
              \/ name # <<>> /\ Glob(pattern, Tail(name))
         ELSE /\ name # <<>>
              /\ Head(name) = Head(pattern)
              /\ Glob(Tail(pattern), Tail(name))

Af2Multimer == <<"alphafold2", Us, "multimer", Us, "v3">>

STRUCTURE_PATTERNS ==
    << <<Star, Us, "unrelaxed", Us>> \o Af2Multimer
           \o <<Us, "model", Us, Star, Us, "seed", Us, Star, Dot, "pdb">>,
       <<Star, Us, "unrelaxed", Us>> \o Af2Multimer
           \o <<Us, "model", Us, Star, Dot, "pdb">>,
       <<Star, Dot, "pdb">> >>

PAE_PATTERNS ==
    << <<Star, Us, "scores", Us>> \o Af2Multimer
           \o <<Us, "model", Us, Star, Us, "seed", Us, Star, Dot, "json">>,
       <<Star, Us, "scores", Us>> \o Af2Multimer
           \o <<Us, "model", Us, Star, Us, "seed", Us, Star, Dot, "json", Dot, "gz">>,
       <<Star, Us, "scores", Us>> \o Af2Multimer
           \o <<Us, "model", Us, Star, Dot, "json">>,
       <<Star, Us, "scores", Us>> \o Af2Multimer
           \o <<Us, "model", Us, Star, Dot, "json", Dot, "gz">> >>

\* root_dir.rglob(pattern): the files below the directory whose name matches
RGlob(root_dir, pattern) == {file_path \in root_dir : Glob(pattern, file_path.name)}

\* str.split(sep)
RECURSIVE SplitOn(_, _)
SplitOn(name, sep) ==
    IF sep \notin Range(name) THEN <<name>>
    ELSE LET k == CHOOSE i \in DOMAIN name :
                     /\ name[i] = sep
                     /\ \A h \in 1..(i - 1) : name[h] # sep
         IN  <<SubSeq(name, 1, k - 1)>> \o SplitOn(SubSeq(name, k + 1, Len(name)), sep)

\* Path.stem: the name up to its last dot, when that dot is neither the first
\* nor the last character
PathStem(name) ==
    LET dots == {i \in DOMAIN name : name[i] = Dot}
    IN  IF dots = {} THEN name
        ELSE LET last == CHOOSE i \in dots : \A h \in dots : h <= i
             IN  IF 1 < last /\ last < Len(name) THEN SubSeq(name, 1, last - 1)
                 ELSE name

\* str.endswith('.gz')
EndsWithGz(name) ==
    /\ Len(name) >= 2
    /\ name[Len(name) - 1] = Dot
    /\ name[Len(name)] = "gz"

\* _get_file_key: the stem, less a trailing ".gz", up to the first underscore
GetFileKey(file_path) ==
    LET stem == PathStem(file_path.name)
        name == IF EndsWithGz(stem) THEN SubSeq(stem, 1, Len(stem) - 2) ELSE stem
    IN  SplitOn(name, Us)[1]

\* the atoms int() parses, with their values
IntegerAtoms == ("0" :> 0) @@ ("1" :> 1) @@ ("2" :> 2) @@ ("3" :> 3) @@ ("000" :> 0)

\* int(part) of one part of a split name
ParseInt(part) ==
    IF Len(part) = 1 /\ part[1] \in DOMAIN IntegerAtoms
    THEN Return(IntegerAtoms[part[1]])
    ELSE Raise("ValueError")

\* list.index(value)
ListIndex(parts, value) ==
    IF value \notin Range(parts) THEN Raise("ValueError")
    ELSE Return((CHOOSE i \in DOMAIN parts :
                     /\ parts[i] = value
                     /\ \A h \in 1..(i - 1) : parts[h] # value) - 1)

\* parts[index] of a 0-based index that is not negative
ListItem(parts, index) ==
    IF index + 1 \in DOMAIN parts THEN Return(parts[index + 1])
    ELSE Raise("IndexError")

\* _extract_model_info: (model_name, seed, model_number), or None when a
\* ValueError or an IndexError is caught
ExtractModelInfo(filename) ==
    LET parts     == SplitOn(filename, Us)
        model_idx == ListIndex(parts, <<"model">>)
    IN  IF model_idx.exc # NoException THEN None
        ELSE LET after_model == ListItem(parts, model_idx.value + 1)
             IN  IF after_model.exc # NoException THEN None
                 ELSE LET model_number == ParseInt(after_model.value)
                          seed_idx     == ListIndex(parts, <<"seed">>)
                      IN  IF model_number.exc # NoException THEN None
                          ELSE IF seed_idx.exc # NoException THEN None
                          ELSE LET seed == ListItem(parts, seed_idx.value + 1)
                               IN  IF seed.exc # NoException THEN None
                                   ELSE <<parts[1], seed.value, model_number.value>>

\* the dataclass FileMatch
FileMatch(structure_path, pae_path, model_name, seed, model_number) ==
    [structure_file |-> structure_path, pae_file |-> pae_path,
     model_name |-> model_name, seed |-> seed, model_number |-> model_number,
     is_valid |-> TRUE]

\* a registration that lets the latest file of a key win
RegisterLatest(files, key, file_path) ==
    [k \in DOMAIN files \cup {key} |-> IF k = key THEN file_path ELSE files[k]]

\* the body of the scan loops: a key already present keeps its file (and a
\* warning is logged), a new key is added
Register(files, key, file_path) ==
    IF key \in DOMAIN files THEN files
    ELSE [k \in DOMAIN files \cup {key} |-> IF k = key THEN file_path ELSE files[k]]

\* the orders in which a set may be iterated
Orderings(S) ==
    {order \in [1..Cardinality(S) -> S] :
        \A a, b \in 1..Cardinality(S) : order[a] = order[b] => a = b}

\* the keys find_matches iterates over
CommonKeys(s) == DOMAIN s.structure_files \cap DOMAIN s.pae_files

\* find_matches, the common keys taken in the given order
RECURSIVE FindMatches(_, _)
FindMatches(s, order) ==
    IF order = <<>> THEN <<>>
    ELSE LET key            == Head(order)
             structure_path == s.structure_files[key]
             pae_path       == s.pae_files[key]
             model_info     == ExtractModelInfo(structure_path.name)
         IN  (IF model_info # None
              THEN <<FileMatch(structure_path, pae_path,
                               model_info[1], model_info[2], model_info[3])>>
              ELSE <<>>)
             \o FindMatches(s, Tail(order))

\* FileScanner(root_dir) as _scan_files is entered: both collections empty,
\* the first structure pattern next, none of its files visited yet
FileScanner(root_dir) ==
    [root_dir |-> root_dir, structure_files |-> <<>>, pae_files |-> <<>>,
     stage |-> "structure", pattern |-> 1, visited |-> {}]

\* the files the directories of the runs are filled from
Unrelaxed == <<Us, "unrelaxed", Us>> \o Af2Multimer

Scores == <<Us, "scores", Us>> \o Af2Multimer

File(parent, name) == [parent |-> parent, name |-> name]

FileMenu ==
    { File("run", <<"RAF1">> \o Unrelaxed \o <<Us, "model", Us, "1", Us, "seed", Us, "000", Dot, "pdb">>),
      File("sub", <<"RAF1">> \o Unrelaxed \o <<Us, "model", Us, "2", Us, "seed", Us, "000", Dot, "pdb">>),
      File("run", <<"KSR1">> \o Unrelaxed \o <<Us, "model", Us, "1", Dot, "pdb">>),
      File("run", <<"KSR1", Us, "model", Us, "3", Us, "seed", Us, "1", Dot, "pdb">>),
      File("run", <<"MEK1", Dot, "pdb">>),
      File("run", <<"MEK1", Us, "seed", Us, "1", Us, "model", Us, "2", Us, "relaxed", Dot, "pdb">>),
      File("run", <<"RAF1">> \o Scores \o <<Us, "model", Us, "1", Us, "seed", Us, "000", Dot, "json">>),
      File("sub", <<"RAF1">> \o Scores \o <<Us, "model", Us, "2", Us, "seed", Us, "000", Dot, "json", Dot, "gz">>),
      File("run", <<"KSR1">> \o Scores \o <<Us, "model", Us, "1", Dot, "json">>),
      File("run", <<"MEK1">> \o Scores \o <<Us, "model", Us, "1", Dot, "json", Dot, "gz">>) }

Directories == {root_dir \in SUBSET FileMenu : Cardinality(root_dir) <= MaxFiles}

\* FileScanner(root_dir) over any of the directories
InitScanner ==
    /\ structure_file = None
    /\ pae_file = None
    /\ calc = None
    /\ op = "__init__"
    /\ ret = Return(None)
    /\ calls = <<>>
    /\ first_run = None
    /\ \E root_dir \in Directories : scanner = FileScanner(root_dir)

\* one turn of the inner loop over the structure files of a pattern
ScanStructureFile ==
    /\ scanner.stage = "structure"
    /\ \E file_path \in RGlob(scanner.root_dir, STRUCTURE_PATTERNS[scanner.pattern])
                            \ scanner.visited :
          scanner' = [scanner EXCEPT
                         !.structure_files = Register(@, GetFileKey(file_path), file_path),
                         !.visited = @ \cup {file_path}]
    /\ UNCHANGED <<structure_file, pae_file, calc, op, ret, calls, first_run>>

\* the files of a structure pattern are exhausted: the next pattern, or the
\* loop over the PAE patterns
NextStructurePattern ==
    /\ scanner.stage = "structure"
    /\ RGlob(scanner.root_dir, STRUCTURE_PATTERNS[scanner.pattern]) \subseteq scanner.visited
    /\ scanner' = IF scanner.pattern < Len(STRUCTURE_PATTERNS)
                  THEN [scanner EXCEPT !.pattern = @ + 1, !.visited = {}]
                  ELSE [scanner EXCEPT !.stage = "pae", !.pattern = 1, !.visited = {}]
    /\ UNCHANGED <<structure_file, pae_file, calc, op, ret, calls, first_run>>

\* one turn of the inner loop over the PAE files of a pattern
ScanPaeFile ==
    /\ scanner.stage = "pae"
    /\ \E file_path \in RGlob(scanner.root_dir, PAE_PATTERNS[scanner.pattern])
                            \ scanner.visited :
          scanner' = [scanner EXCEPT
                         !.pae_files = Register(@, GetFileKey(file_path), file_path),
                         !.visited = @ \cup {file_path}]
    /\ UNCHANGED <<structure_file, pae_file, calc, op, ret, calls, first_run>>

\* the files of a PAE pattern are exhausted: the next pattern, or the scan
\* and with it the constructor return
NextPaePattern ==
    /\ scanner.stage = "pae"
    /\ RGlob(scanner.root_dir, PAE_PATTERNS[scanner.pattern]) \subseteq scanner.visited
    /\ scanner' = IF scanner.pattern < Len(PAE_PATTERNS)
                  THEN [scanner EXCEPT !.pattern = @ + 1, !.visited = {}]
                  ELSE [scanner EXCEPT !.stage = "scanned", !.pattern = 1, !.visited = {}]
    /\ UNCHANGED <<structure_file, pae_file, calc, op, ret, calls, first_run>>

\* scanner.find_matches(), the set of common keys iterated in any order
DoFindMatches ==
    /\ scanner.stage = "scanned"
    /\ \E order \in Orderings(CommonKeys(scanner)) :
          ret' = Return(FindMatches(scanner, order))
    /\ op' = "find_matches"
    /\ UNCHANGED <<structure_file, pae_file, calc, calls, first_run, scanner>>

NextScanner ==
    \/ ScanStructureFile
    \/ NextStructurePattern
    \/ ScanPaeFile
    \/ NextPaePattern
    \/ DoFindMatches

SpecScanner == InitScanner /\ [][NextScanner]_vars

(***************************************************************************)
(* What the properties below read.  The cutoff tests are restated on the   *)
(* loaded dataset itself, with squared distances and no square root.       *)
(***************************************************************************)
Residues == calc.structure_data.residues

Coordinates == calc.structure_data.coordinates

\* the residue indices, 0-based
Indices == {k - 1 : k \in DOMAIN Residues}

\* the chain labels the residues carry
Labels == {Residues[k][1] : k \in DOMAIN Residues}

\* the indices of the residues labelled chain
IndicesOf(chain) == {i \in Indices : Residues[i + 1][1] = chain}

\* Python's order of two labels
Before(a, b) ==
    \E x, y \in DOMAIN ChainAlphabet : x < y /\ ChainAlphabet[x] = a /\ ChainAlphabet[y] = b

SquaredDistance(i, j) ==
    LET p == Coordinates[i + 1]
        q == Coordinates[j + 1]
    IN  (p[1] - q[1]) * (p[1] - q[1]) + (p[2] - q[2]) * (p[2] - q[2])
        + (p[3] - q[3]) * (p[3] - q[3])

Within(i, j, distance_cutoff) == SquaredDistance(i, j) <= distance_cutoff * distance_cutoff

PaeAt(i, j) == calc.pae_matrix.data[i + 1][j + 1]

\* both cutoffs met, inclusively
Contact(i, j, pae_cutoff, distance_cutoff) ==
    PaeAt(i, j) <= pae_cutoff /\ Within(i, j, distance_cutoff)

\* the contacts of chain a with chain b
Contacts(a, b, pae_cutoff, distance_cutoff) ==
    {p \in IndicesOf(a) \X IndicesOf(b) : Contact(p[1], p[2], pae_cutoff, distance_cutoff)}

\* the contacts of residue i
Partners(i, pae_cutoff, distance_cutoff) ==
    {p \in {i} \X (Indices \ {i}) : Contact(p[1], p[2], pae_cutoff, distance_cutoff)}

ChainScoresReturned == op = "calculate_chain_chain_scores" /\ ret.exc = NoException

ResidueScoresReturned == op = "calculate_residue_scores" /\ ret.exc = NoException

\* the entries of a score list for the chain pair (a, b)
EntriesFor(scores, a, b) ==
    {k \in DOMAIN scores : scores[k].chain1 = a /\ scores[k].chain2 = b}

\* the entries of a residue score list for residue i
ResidueEntries(scores, i) ==
    {k \in DOMAIN scores :
        /\ scores[k].chain = Residues[i + 1][1]
        /\ scores[k].residue_number = Residues[i + 1][2]}

\* r * n = total, for a rational r
IsMeanOf(r, values) == r.num * Len(values) = SumSeq(values) * r.den

NoRepeats(s) == Cardinality(Range(s)) = Len(s)

(***************************************************************************)
(* C1.  Every ChainPairScore that calculate_chain_chain_scores returns     *)
(* counts its own list: num_interactions is the length of                  *)
(* valid_interactions, of pae_values and of distances, and avg_pae and     *)
(* avg_distance are the arithmetic means of pae_values and distances.      *)
(***************************************************************************)
C1_AggregatesOfOwnList ==
    ChainScoresReturned =>
        \A k \in DOMAIN ret.value :
            LET s == ret.value[k]
            IN  /\ s.num_interactions = Len(s.valid_interactions)
                /\ s.num_interactions = Len(s.pae_values)
                /\ s.num_interactions = Len(s.distances)
                /\ s.num_interactions > 0
                /\ IsMeanOf(s.avg_pae, s.pae_values)
                /\ IsMeanOf(s.avg_distance, s.distances)

\* a returned score over several contacts whose PAE values and distances differ
C1_Witness ==
    /\ ChainScoresReturned
    /\ \E k \in DOMAIN ret.value :
          /\ ret.value[k].num_interactions >= 2
          /\ Cardinality(Range(ret.value[k].pae_values)) >= 2
          /\ Cardinality(Range(ret.value[k].distances)) >= 2

(***************************************************************************)
(* C2.  calculate_chain_chain_scores returns an entry for a pair of        *)
(* distinct chains exactly when some residue of the first and some residue *)
(* of the second meet both cutoffs (inclusively), and the entry lists      *)
(* exactly those index pairs, each once.                                   *)
(***************************************************************************)
C2_EntryIffContact ==
    ChainScoresReturned =>
        /\ \A a, b \in Labels :
              Before(a, b) =>
                  LET want == Contacts(a, b, calc.pae_cutoff, calc.distance_cutoff)
                      got  == EntriesFor(ret.value, a, b)
                  IN  /\ (got # {}) <=> (want # {})
                      /\ \A k \in got :
                            /\ Range(ret.value[k].valid_interactions) = want
                            /\ NoRepeats(ret.value[k].valid_interactions)
        /\ \A k \in DOMAIN ret.value :
              /\ ret.value[k].chain1 \in Labels
              /\ ret.value[k].chain2 \in Labels
              /\ Before(ret.value[k].chain1, ret.value[k].chain2)

\* one pair is returned at a PAE value and a distance equal to the cutoffs, and
\* another pair of the same structure is left out
C2_Witness ==
    /\ ChainScoresReturned
    /\ \E k \in DOMAIN ret.value :
          /\ calc.pae_cutoff \in Range(ret.value[k].pae_values)
          /\ calc.distance_cutoff * DistScale \in Range(ret.value[k].distances)
    /\ \E a, b \in Labels : Before(a, b) /\ EntriesFor(ret.value, a, b) = {}

(***************************************************************************)
(* C3.  calculate_residue_scores returns an entry for residue i exactly    *)
(* when some other residue j, of any chain, meets both cutoffs with it;    *)
(* the entry lists exactly those (i, j), never (i, i), and its             *)
(* num_interactions is the length of the list.                             *)
(***************************************************************************)
C3_ResidueEntryIffPartner ==
    ResidueScoresReturned =>
        /\ \A i \in Indices :
              LET want == Partners(i, calc.pae_cutoff, calc.distance_cutoff)
                  got  == ResidueEntries(ret.value, i)
              IN  /\ (got # {}) <=> (want # {})
                  /\ \A k \in got :
                        /\ Range(ret.value[k].valid_interactions) = want
                        /\ <<i, i>> \notin Range(ret.value[k].valid_interactions)
                        /\ NoRepeats(ret.value[k].valid_interactions)
                        /\ ret.value[k].num_interactions = Len(ret.value[k].valid_interactions)
        /\ Len(ret.value) =
              Cardinality({i \in Indices :
                  Partners(i, calc.pae_cutoff, calc.distance_cutoff) # {}})

\* a residue is returned with a partner of its own chain, and another residue of
\* the same structure is left out
C3_Witness ==
    /\ ResidueScoresReturned
    /\ \E k \in DOMAIN ret.value :
          \E p \in Range(ret.value[k].valid_interactions) :
              Residues[p[1] + 1][1] = Residues[p[2] + 1][1]
    /\ Len(ret.value) < Len(Residues)

(***************************************************************************)
(* C4.  When the number of residues, the number of coordinates and the     *)
(* dimension of the PAE matrix disagree, a scoring call raises and         *)
(* returns no results.                                                     *)
(***************************************************************************)
LengthsDisagree ==
    \/ Len(Coordinates) # Len(Residues)
    \/ calc.pae_matrix.shape # <<Len(Residues), Len(Residues)>>

ScoringCalled ==
    op \in {"calculate_chain_chain_scores", "calculate_residue_scores", "calculate"}

C4_ShapeErrorSignalled ==
    (~IsNone(calc) /\ ScoringCalled /\ LengthsDisagree) => ret.exc # NoException

(***************************************************************************)
(* C5.  After a load that succeeds, the chain labels, the residues and the *)
(* coordinates have one length N and are index-aligned, and the PAE        *)
(* matrix attached to the dataset is N x N.                                *)
(***************************************************************************)
C5_LoadedDimensions ==
    (op \in {"__init__", "load_data"} /\ ret.exc = NoException) =>
        LET sd == calc.structure_data
            n  == Len(sd.residues)
        IN  /\ Len(sd.chains) = n
            /\ Len(sd.coordinates) = n
            /\ \A k \in 1..n : sd.chains[k] = sd.residues[k][1]
            /\ ~IsNone(sd.pae_matrix)
            /\ sd.pae_matrix.shape = <<n, n>>

(***************************************************************************)
(* C6.  With the dataset and distance_cutoff fixed, a higher pae_cutoff    *)
(* keeps every contact a chain pair or a residue had and never lowers      *)
(* num_interactions; a pair or residue left out counts as none.            *)
(***************************************************************************)
\* the calculator with its pae_cutoff raised to higher
Relaxed(higher) == [calc EXCEPT !.pae_cutoff = higher]

C6_PaeCutoffMonotone ==
    \A higher \in PaeCutoffs :
        higher >= calc.pae_cutoff =>
            /\ ChainScoresReturned =>
                  LET more == CalculateChainChainScores(Relaxed(higher))
                  IN  /\ more.exc = NoException
                      /\ \A k \in DOMAIN ret.value :
                            \E m \in DOMAIN more.value :
                                /\ more.value[m].chain1 = ret.value[k].chain1
                                /\ more.value[m].chain2 = ret.value[k].chain2
                                /\ Range(ret.value[k].valid_interactions)
                                      \subseteq Range(more.value[m].valid_interactions)
                                /\ ret.value[k].num_interactions
                                      <= more.value[m].num_interactions
            /\ ResidueScoresReturned =>
                  LET more == CalculateResidueScores(Relaxed(higher))
                  IN  /\ more.exc = NoException
                      /\ \A k \in DOMAIN ret.value :
                            \E m \in DOMAIN more.value :
                                /\ more.value[m].chain = ret.value[k].chain
                                /\ more.value[m].residue_number = ret.value[k].residue_number
                                /\ Range(ret.value[k].valid_interactions)
                                      \subseteq Range(more.value[m].valid_interactions)
                                /\ ret.value[k].num_interactions
                                      <= more.value[m].num_interactions

\* a chain pair returned at the lower cutoff has more contacts at the higher one
C6_Witness ==
    /\ ChainScoresReturned
    /\ \E higher \in PaeCutoffs :
          /\ higher > calc.pae_cutoff
          /\ LET more == CalculateChainChainScores(Relaxed(higher)).value
             IN  \E k \in DOMAIN ret.value, m \in DOMAIN more :
                    /\ more[m].chain1 = ret.value[k].chain1
                    /\ more[m].chain2 = ret.value[k].chain2
                    /\ ret.value[k].num_interactions < more[m].num_interactions

(***************************************************************************)
(* C7.  The contacts and aggregates of a chain pair do not depend on which *)
(* of the two chains sorts first: with the two labels exchanged the pair   *)
(* has the same contacts (as unordered index pairs), count, avg_pae and    *)
(* avg_distance.                                                           *)
(***************************************************************************)
\* the label a residue of chain x carries once a and b are exchanged
Exchange(x, a, b) == IF x = a THEN b ELSE IF x = b THEN a ELSE x

\* the calculator with the labels a and b exchanged throughout its dataset
Exchanged(a, b) ==
    [calc EXCEPT
        !.structure_data.chains =
            [k \in DOMAIN @ |-> Exchange(@[k], a, b)],
        !.structure_data.residues =
            [k \in DOMAIN @ |-> <<Exchange(@[k][1], a, b), @[k][2], @[k][3]>>]]

\* how often each value occurs in a sequence
Occurrences(s) == [v \in Range(s) |-> Cardinality({k \in DOMAIN s : s[k] = v})]

\* what a score list says of the chain pair (a, b)
PairSummary(scores, a, b) ==
    IF EntriesFor(scores, a, b) = {} THEN [present |-> FALSE]
    ELSE LET s == scores[CHOOSE k \in EntriesFor(scores, a, b) : TRUE]
         IN  [present |-> TRUE,
              contacts |-> {{p[1], p[2]} : p \in Range(s.valid_interactions)},
              num_interactions |-> s.num_interactions,
              avg_pae |-> s.avg_pae,
              avg_distance |-> s.avg_distance,
              pae_values |-> Occurrences(s.pae_values),
              distances |-> Occurrences(s.distances)]

SameUnderExchange ==
    \A a, b \in Labels :
        Before(a, b) =>
            PairSummary(ret.value, a, b)
                = PairSummary(CalculateChainChainScores(Exchanged(a, b)).value, a, b)

SymmetricPae == \A i, j \in Indices : PaeAt(i, j) = PaeAt(j, i)

\* the claim as stated: for every PAE matrix
C7_EnumerationOrderIrrelevant == ChainScoresReturned => SameUnderExchange

\* the claim as amended: for every symmetric PAE matrix
C7_SymmetricPaeOrderIrrelevant == (ChainScoresReturned /\ SymmetricPae) => SameUnderExchange

\* a symmetric matrix with a value above the cutoff between two chains, one of
\* them listed before a chain that sorts before it, and a pair returned
C7_Witness ==
    /\ ChainScoresReturned
    /\ SymmetricPae
    /\ \E i, j \in Indices :
          /\ Residues[i + 1][1] # Residues[j + 1][1]
          /\ PaeAt(i, j) > calc.pae_cutoff
    /\ \E i, j \in Indices : i < j /\ Before(Residues[j + 1][1], Residues[i + 1][1])
    /\ ret.value # <<>>

(***************************************************************************)
(* C8.  A chain pair whose cross-chain distances all exceed                *)
(* distance_cutoff has no entry, whatever its PAE values, and every other  *)
(* chain pair that has a contact still has its entry, with all of its      *)
(* contacts.                                                               *)
(***************************************************************************)
AllFar(a, b) ==
    \A p \in IndicesOf(a) \X IndicesOf(b) : ~Within(p[1], p[2], calc.distance_cutoff)

C8_FarPairOmitted ==
    ChainScoresReturned =>
        \A a, b \in Labels :
            (Before(a, b) /\ AllFar(a, b)) =>
                /\ EntriesFor(ret.value, a, b) = {}
                /\ \A c, d \in Labels :
                      (Before(c, d) /\ <<c, d>> # <<a, b>>) =>
                          LET want == Contacts(c, d, calc.pae_cutoff, calc.distance_cutoff)
                              got  == EntriesFor(ret.value, c, d)
                          IN  want # {} =>
                                  /\ Cardinality(got) = 1
                                  /\ \A k \in got :
                                        ret.value[k].num_interactions = Cardinality(want)

\* a pair too far apart, though its PAE values are within the cutoff, is
\* visited before a pair that is returned
C8_Witness ==
    /\ ChainScoresReturned
    /\ \E a, b, d \in Labels :
          /\ Before(a, b) /\ Before(b, d)
          /\ AllFar(a, b)
          /\ \A p \in IndicesOf(a) \X IndicesOf(b) : PaeAt(p[1], p[2]) <= calc.pae_cutoff
          /\ EntriesFor(ret.value, b, d) # {}

(***************************************************************************)
(* C9.  A calculate() run depends on the two files and the two cutoffs     *)
(* alone: a run on the input of the first run of the behaviour, whatever   *)
(* was called in between, returns or raises what the first run did, and    *)
(* its results save to the same interchange form.                          *)
(***************************************************************************)
RepeatsFirstRun == op = "calculate" /\ ~IsNone(first_run) /\ RunInput = first_run.input

C9_SameInputSameOutput ==
    RepeatsFirstRun =>
        /\ ret = first_run.ret
        /\ ret.exc = NoException => Save(ret.value) = Save(first_run.ret.value)

\* the first run's input is run again after the calculator held other data, and
\* returns scores that save
C9_Witness ==
    /\ RepeatsFirstRun
    /\ first_run.disturbed
    /\ ret.exc = NoException
    /\ ret.value.chain_chain_scores # <<>>
    /\ Save(ret.value).exc = NoException

(***************************************************************************)
(* C10.  The example of the design: chain A at (0,0,0), (1,0,0), (2,0,0),  *)
(* chain B at (0,0,5), (1,0,5), every cross PAE entry 10, pae_cutoff 30,   *)
(* distance_cutoff 8.  One entry (A, B) is returned, with 6 contacts,      *)
(* avg_pae 10, ipsae_score 1 - 10/30 and lis_score 6/(3*2) = 1.            *)
(***************************************************************************)
ExampleScored ==
    /\ ChainScoresReturned
    /\ structure_file = ExampleStructure
    /\ pae_file = ExamplePae
    /\ calc.pae_cutoff = 30
    /\ calc.distance_cutoff = 8

C10_ExampleScores ==
    ExampleScored =>
        /\ Len(ret.value) = 1
        /\ ret.value[1].chain1 = "A"
        /\ ret.value[1].chain2 = "B"
        /\ ret.value[1].num_interactions = 6
        /\ ret.value[1].avg_pae = [num |-> 10, den |-> 1]
        /\ ret.value[1].ipsae_score.num * 30 = (30 - 10) * ret.value[1].ipsae_score.den
        /\ ret.value[1].lis_score = [num |-> 1, den |-> 1]

C10_Witness == ExampleScored /\ ret.value # <<>>

(***************************************************************************)
(* C11.  The example of the design with distance_cutoff 4: chain A at      *)
(* z = 0, chain B at z = 5, every cross PAE entry 10, pae_cutoff 30.  No   *)
(* cross pair is within the distance cutoff, and                           *)
(* calculate_chain_chain_scores returns no entry for (A, B).               *)
(***************************************************************************)
ExampleScoredTight ==
    /\ ChainScoresReturned
    /\ structure_file = ExampleStructure
    /\ pae_file = ExamplePae
    /\ calc.pae_cutoff = 30
    /\ calc.distance_cutoff = 4

C11_ExampleNoScore ==
    ExampleScoredTight =>
        /\ Contacts("A", "B", 30, 4) = {}
        /\ EntriesFor(ret.value, "A", "B") = {}
        /\ ret.value = <<>>

\* the example is scored at distance_cutoff 4, and every cross PAE value is
\* within the PAE cutoff
C11_Witness ==
    /\ ExampleScoredTight
    /\ \A p \in IndicesOf("A") \X IndicesOf("B") : PaeAt(p[1], p[2]) <= calc.pae_cutoff
    /\ IndicesOf("A") # {} /\ IndicesOf("B") # {}

(***************************************************************************)
(* C12.  For every ChainPairScore returned, lis_score is num_interactions  *)
(* divided by the number of residues labelled chain1 times the number      *)
(* labelled chain2; that product is not zero, and the score is above 0     *)
(* and at most 1.                                                          *)
(***************************************************************************)
\* the number of ordered residue pairs of chain a with chain b
CrossSize(a, b) == Cardinality(IndicesOf(a)) * Cardinality(IndicesOf(b))

C12_LisIsContactDensity ==
    ChainScoresReturned =>
        \A k \in DOMAIN ret.value :
            LET s == ret.value[k]
                d == CrossSize(s.chain1, s.chain2)
            IN  /\ d > 0
                /\ s.lis_score.den > 0
                /\ s.lis_score.num * d = s.num_interactions * s.lis_score.den
                /\ 0 < s.lis_score.num
                /\ s.lis_score.num <= s.lis_score.den

\* an entry whose chains have different lengths and whose density is below 1
C12_Witness ==
    /\ ChainScoresReturned
    /\ \E k \in DOMAIN ret.value :
          /\ ret.value[k].lis_score.num < ret.value[k].lis_score.den
          /\ Cardinality(IndicesOf(ret.value[k].chain1))
                # Cardinality(IndicesOf(ret.value[k].chain2))

(***************************************************************************)
(* C13.  A load that fails leaves no partly populated dataset: whatever    *)
(* was called, the calculator holds a structure_data with a PAE matrix     *)
(* attached, and that matrix is the one the calculator scores with.        *)
(***************************************************************************)
C13_NoPartialDataset ==
    ~IsNone(calc) =>
        /\ ~IsNone(calc.structure_data)
        /\ ~IsNone(calc.structure_data.pae_matrix)
        /\ calc.structure_data.pae_matrix = calc.pae_matrix

(***************************************************************************)
(* C14.  When the suffix of the structure file is neither .cif nor .pdb    *)
(* in any letter case, or the suffix of the PAE file, taken before a       *)
(* final .gz, is neither .json nor .npz, the constructor, load_data and    *)
(* calculate raise the unsupported-format error, and the call enters no    *)
(* scoring method.                                                         *)
(***************************************************************************)
\* the suffixes in lower case under which a component is accepted
Spelled(component, accepted) ==
    \E a \in accepted : component \in {a, CHOOSE u \in {"CIF", "PDB", "JSON", "NPZ", "GZ"} : Lower(u) = a}

StructureSupported ==
    LET name == structure_file.name
    IN  Len(name) > 1 /\ Spelled(name[Len(name)], {"cif", "pdb"})

PaeSupported ==
    LET name == pae_file.name
        n == Len(name)
    IN  /\ n > 1
        /\ IF Spelled(name[n], {"gz"})
           THEN Spelled(name[n - 1], {"json", "npz"})
           ELSE Spelled(name[n], {"json", "npz"})

Loading == op \in {"__init__", "load_data", "calculate"}

C14_UnsupportedFormatAborts ==
    (Loading /\ ~(StructureSupported /\ PaeSupported)) =>
        /\ ret = Raise("ValueError")
        /\ calls = <<"load_data">>

\* calculate() is called on a calculator that holds a scorable dataset, after
\* one of the two files was replaced by one of an unknown type
C14_Witness ==
    /\ op = "calculate"
    /\ ~(StructureSupported /\ PaeSupported)
    /\ ~IsNone(calc.pae_matrix)
    /\ CalculateChainChainScores(calc).exc = NoException

(***************************************************************************)
(* C15.  The PAE loader, for a JSON and for an NPZ file alike, takes the   *)
(* matrix under the first of pae_matrix, predicted_aligned_error, pae      *)
(* that the file holds, and fails when the file holds none of them.        *)
(***************************************************************************)
\* the accepted names the PAE file holds, as positions in the priority list
AcceptedPresent == {k \in 1..3 :
    <<"pae_matrix", "predicted_aligned_error", "pae">>[k] \in DOMAIN pae_file.data}

\* the array under the accepted name of highest priority
FirstAccepted ==
    LET k == CHOOSE x \in AcceptedPresent : \A y \in AcceptedPresent : x <= y
    IN  pae_file.data[<<"pae_matrix", "predicted_aligned_error", "pae">>[k]]

C15_FirstAcceptedKey ==
    (op \in {"__init__", "load_data"} /\ StructureSupported /\ PaeSupported) =>
        IF AcceptedPresent = {}
        THEN ret.exc # NoException
        ELSE /\ ret.exc = NoException
             /\ IF FirstAccepted.ndim = 2
                THEN calc.pae_matrix = FirstAccepted
                ELSE Concat(calc.pae_matrix.data) = FirstAccepted.data

(***************************************************************************)
(* C16.  save() produces the interchange form for the results of every     *)
(* run, whether the PAE matrix holds integers or reals: a mapping with     *)
(* the keys chain_chain_scores, residue_scores and structure_data, in      *)
(* which no value of an array-library type is left for the encoder to      *)
(* refuse.                                                                 *)
(***************************************************************************)
C16_PlainInterchangeForm ==
    op = "save" =>
        /\ ret.exc = NoException
        /\ DOMAIN ret.value = {"chain_chain_scores", "residue_scores", "structure_data"}
        /\ IsNone(ret.value.structure_data.pae_matrix)
              \/ ret.value.structure_data.pae_matrix \in Seq(Seq(Int))

(***************************************************************************)
(* C17.  calculate_chain_chain_scores and calculate_residue_scores only    *)
(* read: a step of either leaves the calculator's dataset (chains,         *)
(* residues, coordinates, attached PAE matrix), its PAE matrix and its     *)
(* two cutoffs as they were, and the two files as well.                    *)
(***************************************************************************)
ScoringStep ==
    op' \in {"calculate_chain_chain_scores", "calculate_residue_scores"}

C17_ScoringOnlyReads ==
    [][ScoringStep =>
          /\ calc'.structure_data = calc.structure_data
          /\ calc'.pae_matrix = calc.pae_matrix
          /\ calc'.pae_cutoff = calc.pae_cutoff
          /\ calc'.distance_cutoff = calc.distance_cutoff
          /\ structure_file' = structure_file
          /\ pae_file' = pae_file]_vars

\* a scoring call has returned entries
C17_Witness ==
    /\ op \in {"calculate_chain_chain_scores", "calculate_residue_scores"}
    /\ ret.exc = NoException
    /\ ret.value # <<>>
    /\ Len(calc.structure_data.chains) > 1

(***************************************************************************)
(* C18.  One calculate() run loads the dataset, then scores the chain      *)
(* pairs, then the residues.  Both score lists are computed on the dataset *)
(* that run loaded from the two files (one set of coordinates, one PAE     *)
(* matrix) with the calculator's two cutoffs, and the results carry that   *)
(* dataset.                                                                *)
(***************************************************************************)
RunOrder == <<"load_data", "calculate_chain_chain_scores", "calculate_residue_scores">>

\* the calculator as a load of the two files leaves it
FreshlyLoaded == LoadData(calc, structure_file, pae_file).calc

C18_LoadThenScoreSameData ==
    op = "calculate" =>
        /\ calls # <<>>
        /\ Len(calls) <= 3
        /\ calls = SubSeq(RunOrder, 1, Len(calls))
        /\ ret.exc = NoException =>
              /\ calls = RunOrder
              /\ calc = FreshlyLoaded
              /\ CalculateChainChainScores(FreshlyLoaded)
                    = Return(ret.value.chain_chain_scores)
              /\ CalculateResidueScores(FreshlyLoaded) = Return(ret.value.residue_scores)
              /\ ret.value.structure_data = FreshlyLoaded.structure_data
              /\ ret.value.structure_data.pae_matrix = calc.pae_matrix

\* a run has returned chain-pair and residue entries
C18_Witness ==
    /\ op = "calculate"
    /\ ret.exc = NoException
    /\ ret.value.chain_chain_scores # <<>>
    /\ ret.value.residue_scores # <<>>

(***************************************************************************)
(* C19.  Chain-pair scoring reads pae_matrix[i, j] only with i in the      *)
(* chain whose label sorts first and j in the other: a dataset that        *)
(* differs from the loaded one only in the transposed entries, or only in  *)
(* the entries within one chain, has the same chain-pair scores.           *)
(***************************************************************************)
\* whether chain-pair scoring has a reason to read pae_matrix[i, j]
ReadDirection(i, j) == Before(Residues[i + 1][1], Residues[j + 1][1])

\* the calculator with value written to every entry of the PAE matrix of the
\* given kind that is not in the read direction
Overwritten(kind, value) ==
    [calc EXCEPT !.pae_matrix.data =
        [r \in DOMAIN @ |-> [q \in DOMAIN @[r] |->
            IF /\ ~ReadDirection(r - 1, q - 1)
               /\ (kind = "same chain") = (Residues[r][1] = Residues[q][1])
            THEN value ELSE @[r][q]]]]

C19_OnePaeDirection ==
    ChainScoresReturned =>
        \A kind \in {"transposed", "same chain"}, value \in {0, calc.pae_cutoff + 1} :
            CalculateChainChainScores(Overwritten(kind, value)) = ret

\* an entry is returned for a pair one of whose transposed PAE values is above
\* the cutoff
C19_Witness ==
    /\ ChainScoresReturned
    /\ \E k \in DOMAIN ret.value :
          \E p \in Range(ret.value[k].valid_interactions) :
              /\ PaeAt(p[2], p[1]) > calc.pae_cutoff
              /\ PaeAt(p[1], p[2]) <= calc.pae_cutoff

(***************************************************************************)
(* C20.  The chain-pair entries are returned in strictly increasing        *)
(* lexicographic order of (chain1, chain2), each with chain1 before        *)
(* chain2, so no pair is returned twice or with itself; the residue        *)
(* entries are returned in strictly increasing order of residue index.     *)
(***************************************************************************)
PairBefore(s, t) ==
    \/ Before(s.chain1, t.chain1)
    \/ s.chain1 = t.chain1 /\ Before(s.chain2, t.chain2)

\* the index of the residue an entry is about: the first member of its pairs
EntryIndex(s) == s.valid_interactions[1][1]

C20_EntriesInOrder ==
    /\ ChainScoresReturned =>
          /\ \A k \in DOMAIN ret.value : Before(ret.value[k].chain1, ret.value[k].chain2)
          /\ \A k, m \in DOMAIN ret.value : k < m => PairBefore(ret.value[k], ret.value[m])
    /\ ResidueScoresReturned =>
          /\ \A k \in DOMAIN ret.value :
                /\ ret.value[k].valid_interactions # <<>>
                /\ \A p \in Range(ret.value[k].valid_interactions) :
                      p[1] = EntryIndex(ret.value[k])
                /\ Residues[EntryIndex(ret.value[k]) + 1]
                      = <<ret.value[k].chain, ret.value[k].residue_number,
                          ret.value[k].residue_name>>
          /\ \A k, m \in DOMAIN ret.value :
                k < m => EntryIndex(ret.value[k]) < EntryIndex(ret.value[m])

\* several chain pairs are returned for a dataset whose residues are not listed
\* in the order of their labels
C20_Witness ==
    /\ ChainScoresReturned
    /\ Len(ret.value) > 1
    /\ \E i, j \in Indices : i < j /\ Before(Residues[j + 1][1], Residues[i + 1][1])

(***************************************************************************)
(* C21.  With non-negative PAE values and a positive pae_cutoff, every     *)
(* ipsae_score returned, for a chain pair or a residue, is at most 1, and  *)
(* is at least 0 whenever the computed mean does not exceed the cutoff.    *)
(* The floating-point mean of values none of which exceeds the cutoff can  *)
(* exceed it by rounding; the score is then negative, by no more than      *)
(* (n + 1) * 2^(1 - Precision) for n values.                               *)
(***************************************************************************)
ScoresReturned == ChainScoresReturned \/ ResidueScoresReturned

\* the claim as stated: every score is in [0, 1]
C21_IpsaeInUnitInterval ==
    ScoresReturned =>
        \A k \in DOMAIN ret.value :
            /\ RatLeq(RatInt(0), ret.value[k].ipsae_score)
            /\ RatLeq(ret.value[k].ipsae_score, RatInt(1))

\* the claim as amended
C21_IpsaeUpToRounding ==
    ScoresReturned =>
        \A k \in DOMAIN ret.value :
            LET s == ret.value[k]
            IN  /\ \A v \in Range(s.pae_values) : 0 <= v /\ v <= calc.pae_cutoff
                /\ RatLeq(s.ipsae_score, RatInt(1))
                /\ RatLeq(s.avg_pae, RatInt(calc.pae_cutoff))
                      => RatLeq(RatInt(0), s.ipsae_score)
                /\ RatLeq(Rat(-(Len(s.pae_values) + 1), Pow2(Precision - 1)),
                          s.ipsae_score)

\* a score is negative: the mean of values equal to the cutoff is above it
C21_Witness ==
    /\ ScoresReturned
    /\ \E k \in DOMAIN ret.value :
          /\ ret.value[k].ipsae_score.num < 0
          /\ \A v \in Range(ret.value[k].pae_values) : v = calc.pae_cutoff

(***************************************************************************)
(* C22.  Chain-pair and residue results agree: every interaction (i, j)    *)
(* kept in a ChainPairScore is among the interactions of the ResidueScore  *)
(* of residue i, computed on the same dataset with the same cutoffs, so    *)
(* residue i has an entry.  Residue j need not list (j, i).                *)
(***************************************************************************)
\* whether a residue score list holds the pair in the entry of its first member
ListedByResidue(scores, pair) ==
    \E m \in DOMAIN scores :
        /\ scores[m].valid_interactions # <<>>
        /\ EntryIndex(scores[m]) = pair[1]
        /\ pair \in Range(scores[m].valid_interactions)

C22_ChainContactsAreResidueContacts ==
    ChainScoresReturned =>
        LET rs == CalculateResidueScores(calc)
        IN  /\ rs.exc = NoException
            /\ \A k \in DOMAIN ret.value :
                  \A p \in Range(ret.value[k].valid_interactions) :
                      ListedByResidue(rs.value, p)

\* a kept interaction (i, j) whose reverse (j, i) no residue entry lists
C22_Witness ==
    /\ ChainScoresReturned
    /\ \E k \in DOMAIN ret.value :
          \E p \in Range(ret.value[k].valid_interactions) :
              /\ ListedByResidue(CalculateResidueScores(calc).value, p)
              /\ ~ListedByResidue(CalculateResidueScores(calc).value, <<p[2], p[1]>>)

(***************************************************************************)
(* C23.  With the dataset and pae_cutoff fixed, a higher distance_cutoff   *)
(* removes no chain pair and no residue from the output and lowers no      *)
(* num_interactions.                                                       *)
(***************************************************************************)
\* the calculator with its distance_cutoff raised to higher
Loosened(higher) == [calc EXCEPT !.distance_cutoff = higher]

C23_DistanceCutoffMonotone ==
    \A higher \in DistanceCutoffs :
        higher >= calc.distance_cutoff =>
            /\ ChainScoresReturned =>
                  LET more == CalculateChainChainScores(Loosened(higher))
                  IN  /\ more.exc = NoException
                      /\ \A k \in DOMAIN ret.value :
                            \E m \in DOMAIN more.value :
                                /\ more.value[m].chain1 = ret.value[k].chain1
                                /\ more.value[m].chain2 = ret.value[k].chain2
                                /\ ret.value[k].num_interactions
                                      <= more.value[m].num_interactions
            /\ ResidueScoresReturned =>
                  LET more == CalculateResidueScores(Loosened(higher))
                  IN  /\ more.exc = NoException
                      /\ \A k \in DOMAIN ret.value :
                            \E m \in DOMAIN more.value :
                                /\ more.value[m].chain = ret.value[k].chain
                                /\ more.value[m].residue_number = ret.value[k].residue_number
                                /\ ret.value[k].num_interactions
                                      <= more.value[m].num_interactions

\* a residue returned at the lower cutoff has more interactions at the higher
\* one, and more residues are returned there
C23_Witness ==
    /\ ResidueScoresReturned
    /\ \E higher \in DistanceCutoffs :
          /\ higher > calc.distance_cutoff
          /\ LET more == CalculateResidueScores(Loosened(higher)).value
             IN  /\ Len(ret.value) < Len(more)
                 /\ \E k \in DOMAIN ret.value, m \in DOMAIN more :
                       /\ more[m].chain = ret.value[k].chain
                       /\ more[m].residue_number = ret.value[k].residue_number
                       /\ ret.value[k].num_interactions < more[m].num_interactions

(***************************************************************************)
(* C24.  While a FileScanner scans, whatever the order in which the files  *)
(* are discovered, a key once registered keeps its file in the structure   *)
(* collection and in the PAE collection; and find_matches returns at most  *)
(* one FileMatch per key, each for a key of both collections and with the  *)
(* files registered under it, and only where the name of the structure     *)
(* file has a part "model" followed by a part int() parses and a part      *)
(* "seed" followed by a further part.                                      *)
(***************************************************************************)
KeptIn(before, after) ==
    \A key \in DOMAIN before : key \in DOMAIN after /\ after[key] = before[key]

CarriesModelAndSeed(filename) ==
    LET parts == SplitOn(filename, Us)
    IN  /\ \E i \in 1..(Len(parts) - 1) :
              /\ parts[i] = <<"model">>
              /\ Len(parts[i + 1]) = 1
              /\ parts[i + 1][1] \in DOMAIN IntegerAtoms
        /\ \E i \in 1..(Len(parts) - 1) : parts[i] = <<"seed">>

MatchesReturned == op = "find_matches" /\ ret.exc = NoException

C24_FirstRegisteredKeptOneMatchPerKey ==
    /\ [][/\ KeptIn(scanner.structure_files, scanner'.structure_files)
          /\ KeptIn(scanner.pae_files, scanner'.pae_files)]_vars
    /\ [](MatchesReturned =>
            /\ \A a, b \in DOMAIN ret.value :
                  GetFileKey(ret.value[a].structure_file)
                      = GetFileKey(ret.value[b].structure_file) => a = b
            /\ \A a \in DOMAIN ret.value :
                  LET key == GetFileKey(ret.value[a].structure_file)
                  IN  /\ key \in DOMAIN scanner.structure_files
                      /\ key \in DOMAIN scanner.pae_files
                      /\ ret.value[a].structure_file = scanner.structure_files[key]
                      /\ ret.value[a].pae_file = scanner.pae_files[key]
                      /\ CarriesModelAndSeed(ret.value[a].structure_file.name))

\* a structure file of a registered key was discovered after the registered
\* one and was not taken, and find_matches returned the match of that key
C24_Witness ==
    /\ MatchesReturned
    /\ \E a \in DOMAIN ret.value :
          \E file_path \in RGlob(scanner.root_dir, STRUCTURE_PATTERNS[3]) :
              /\ GetFileKey(file_path) = GetFileKey(ret.value[a].structure_file)
              /\ file_path # ret.value[a].structure_file

====
